---- MODULE Spec2Model ----
(***************************************************************************)
(* A model of latexmake.py: LatexMaker.run() and the entry point main().   *)
(*                                                                         *)
(* The working directory is the pair (dir, fs): dir is the set of files    *)
(* that exist, fs gives the text of each file as a sequence of lines.  A   *)
(* line is a record [t, k, i, o]: t is the kind of directive or notice     *)
(* the program's regular expressions look for, k its first argument.       *)
(* File names are pairs <<base, extension>>, the two arguments of the      *)
(* '%s.%s' formats of the source.                                          *)
(*                                                                         *)
(* The external tools (compiler, bibtex, makeindex) are the environment:   *)
(* what the compiler writes is a function of the document doc, its log is  *)
(* chosen from LogChoices, and any launch may fail with OSError.           *)
(***************************************************************************)
EXTENDS FiniteSets, Integers, Sequences, TLC

VARIABLES
    opt,                \* self.opt: the parsed command line flags
    doc,                \* what main.tex asks of the compiler
    fs, dir, mtime,     \* the working directory
    fs0, dir0,          \* the working directory as run() found it
    pc,                 \* position inside main() / run()
    exc, msg,           \* the exception in flight and what it names
    status,             \* the exit status of the process
    out,                \* self.out
    glossaries,         \* self.glossaries, in insertion order
    latex_run_counter,  \* self.latex_run_counter
    bib_file,           \* self.bib_file
    old_dir,            \* self.old_dir
    cite_counter,       \* run(): cite_counter
    toc_sha,            \* run(): toc_sha
    gloss_files,        \* run(): gloss_files
    gloss_changed,      \* makeindex_runs(): gloss_changed
    gi,                 \* makeindex_runs(): position of the for loop
    trace,              \* what run() has done so far, in order
    made,               \* the glossaries makeindex was run for
    uncited,            \* the entries the uncited check reported
    failed              \* the files the clean-up could not remove

vars == <<opt, doc, fs, dir, mtime, fs0, dir0, pc, exc, msg, status, out,
          glossaries, latex_run_counter, bib_file, old_dir, cite_counter,
          toc_sha, gloss_files, gloss_changed, gi, trace, made, uncited, failed>>

-----------------------------------------------------------------------------
(* Bounds of the model *)

MaxCites == 2
MaxLogLines == 1
MaxRemoveFail == 1
MaxTime == 1

(* Program constants *)

MAX_RUNS == 4

-----------------------------------------------------------------------------
(* Texts and file names *)

Line(t, k) == [t |-> t, k |-> k, i |-> "", o |-> ""]
GlossLine(name, ei, eo) == [t |-> "newglossary", k |-> name, i |-> ei, o |-> eo]

project_name == "main"
File(base, ext) == <<base, ext>>
TexFile == File(project_name, "tex")
AuxFile == File(project_name, "aux")
LogFile == File(project_name, "log")
TocFile == File(project_name, "toc")
BblFile == File(project_name, "bbl")
BibOf(b) == File(b, "bib")
BibOldOf(b) == File(b, "bib.old")

Keys == {"a", "b"}
KeyOrder == <<"a", "b">>
BibNames == {"refs"}
GlossExt == [main |-> [i |-> "gls", o |-> "glo"], acr |-> [i |-> "acr", o |-> "acn"]]
GlossNames == DOMAIN GlossExt

Files ==
    {TexFile, AuxFile, LogFile, TocFile, BblFile, File("ch", "aux"),
     File(project_name, "pdf"), File(project_name, "dvi"), BibOf("")}
    \cup {BibOf(b) : b \in BibNames} \cup {BibOldOf(b) : b \in BibNames}
    \cup {File(project_name, GlossExt[g].i) : g \in GlossNames}
    \cup {File(project_name, GlossExt[g].o) : g \in GlossNames}

Range(s) == {s[j] : j \in 1..Len(s)}
LinesOf(text, kind) == {j \in 1..Len(text) : text[j].t = kind}
LinesFor(kind, s) == [j \in 1..Len(s) |-> Line(kind, s[j])]

SubsetsUpTo(S, n) == {T \in SUBSET S : Cardinality(T) <= n}

-----------------------------------------------------------------------------
(* latexmake.py: module level patterns *)

\* LATEX_RERUN_PATTERNS, one line kind per pattern
RerunMatches(ln) ==
    \/ ln.t = "refundef"
    \/ ln.t = "undefrefs"
    \/ ln.t = "labelschanged"
    \/ ln.t = "nofile" /\ ln.k \in {"toc", "lof"}

\* ERROR_PATTTERN
ErrorMatches(ln) == ln.t \in {"error", "nopages"}

LogLines ==
    {Line("error", ""), Line("nopages", ""), Line("refundef", ""),
     Line("undefrefs", ""), Line("labelschanged", ""), Line("citeundef", ""),
     Line("nofile", "toc"), Line("nofile", "bbl"), Line("nofile", "gls")}

\* the log is searched, never read in order: it is the set of its lines
LogChoices == SubsetsUpTo(LogLines, MaxLogLines)

-----------------------------------------------------------------------------
(* The environment: the document and what the tools write *)

GlossLineOf(g) == GlossLine(g, GlossExt[g].i, GlossExt[g].o)
GlossLines(s) == [j \in 1..Len(s) |-> GlossLineOf(s[j])]
EntryLine(k) == Line("entry", k)

\* main.aux as the compiler writes it for document d in directory dr
AuxText(d, dr) ==
    (IF d.bib # "" THEN <<Line("bibdata", d.bib)>> ELSE <<>>)
    \o LinesFor("citation", d.cites)
    \o (IF d.incl THEN <<Line("input", "ch")>> ELSE <<>>)
    \o GlossLines(d.gloss)
    \o (IF BblFile \in dr
        THEN LinesFor("bibcite", SelectSeq(KeyOrder, LAMBDA k : k \in Range(d.cites)))
        ELSE <<>>)

OutputFile == File(project_name, IF opt.pdf THEN "pdf" ELSE "dvi")

\* the files one compiler pass writes, and their text
CompilerFiles(d) ==
    {AuxFile, LogFile, OutputFile}
    \cup (IF d.incl THEN {File("ch", "aux")} ELSE {})
    \cup (IF d.toc THEN {TocFile} ELSE {})
    \cup {File(project_name, GlossExt[g].o) : g \in Range(d.gloss)}

CompilerText(d, dr, log, fn) ==
    CASE fn = AuxFile -> AuxText(d, dr)
      [] fn = LogFile -> log
      [] fn = File("ch", "aux") -> LinesFor("citation", d.chcites)
      [] fn = TocFile -> <<Line("contentsline", "1")>>
      [] fn \in {File(project_name, GlossExt[g].o) : g \in GlossNames} -> LinesFor("glossaryentry", d.terms)
      [] OTHER -> <<>>

SeqsUpTo(S, n) == UNION {[1..m -> S] : m \in 0..n}
\* citations in document order do not matter to any reader: keep them sorted
Sorted(s) == \A j \in 1..(Len(s) - 1) : s[j] = "a" \/ s[j + 1] = "b"
CiteSeqs == {s \in SeqsUpTo(Keys, MaxCites) : Sorted(s)}

BibTexts == {<<EntryLine("a")>>, <<EntryLine("b")>>, <<EntryLine("a"), EntryLine("b")>>}

-----------------------------------------------------------------------------
(* latexmake.py: helper functions *)

\* faulty variant: a key is noted, its occurrences are not counted
CountCitationsOnce(text) ==
    [k \in {text[j].k : j \in LinesOf(text, "citation")} |-> 1]

\* _count_citations
CountCitations(text) ==
    LET keys == {text[j].k : j \in LinesOf(text, "citation")}
    IN  [k \in keys |-> Cardinality({j \in LinesOf(text, "citation") : text[j].k = k})]

EmptyCounter == CountCitations(<<>>)

\* LatexMaker.generate_citation_counter
GenerateCitationCounter(f, dr) ==
    LET main_aux == f[AuxFile]
        inputs == {File(main_aux[j].k, "aux") : j \in LinesOf(main_aux, "input")}
        readable == {fn \in inputs : fn \in dr}
    IN  [fn \in {AuxFile} \cup readable |-> CountCitations(f[fn])]

\* LatexMaker.read_glossaries: self.glossaries[name] = (ext_i, ext_o)
Register(reg, ln) ==
    LET entry == [name |-> ln.k, ext_i |-> ln.i, ext_o |-> ln.o]
    IN  IF \E j \in 1..Len(reg) : reg[j].name = ln.k
        THEN [j \in 1..Len(reg) |-> IF reg[j].name = ln.k THEN entry ELSE reg[j]]
        ELSE Append(reg, entry)

RECURSIVE ReadFrom(_, _, _)
ReadFrom(reg, text, j) ==
    IF j > Len(text) THEN reg
    ELSE ReadFrom(IF text[j].t = "newglossary" THEN Register(reg, text[j]) ELSE reg,
                  text, j + 1)

ReadGlossaries(reg, text) == ReadFrom(reg, text, 1)

\* _read_latex_files: gloss_files
SnapshotGloss(reg, f, dr) ==
    LET have == {j \in 1..Len(reg) : File(project_name, reg[j].ext_o) \in dr}
    IN  [g \in {reg[j].name : j \in have} |->
            f[File(project_name, reg[CHOOSE j \in have : reg[j].name = g].ext_o)]]

\* faulty variant: only the signatures are compared
FilecmpSigOnly(f, mt, f1, f2) == <<Len(f[f1]), mt[f1]>> = <<Len(f[f2]), mt[f2]>>

\* filecmp.cmp(f1, f2), shallow: equal signatures (size, mtime) suffice
Sig(f, mt, fn) == <<Len(f[fn]), mt[fn]>>
FilecmpCmp(f, mt, f1, f2) ==
    IF Sig(f, mt, f1) = Sig(f, mt, f2) THEN TRUE
    ELSE IF Len(f[f1]) # Len(f[f2]) THEN FALSE
    ELSE f[f1] = f[f2]

\* faulty variant: only the first rerun pattern is searched for
NeedLatexRerunFirstPattern(log) == \E ln \in log : ln.t = "refundef"

\* LatexMaker.need_latex_rerun
NeedLatexRerun(log) == \E ln \in log : RerunMatches(ln)

\* LatexMaker.check_errors: errors = ERROR_PATTTERN.findall(self.out)
HasErrors(log) == \E ln \in log : ErrorMatches(ln)

\* faulty variant: check_errors raises whatever the flag says
CheckErrorsIgnoresFlag(log) == HasErrors(log)

\* check_errors raises only under opt.exit_on_error
CheckErrorsRaises(log) == HasErrors(log) /\ opt.exit_on_error

\* __init__: self.latex_cmd
LatexCmd == IF opt.command # "" THEN opt.command
            ELSE IF opt.pdf THEN "pdflatex" ELSE "latex"

-----------------------------------------------------------------------------
(* Initial states: the flags, the document, and the directory run() finds *)

Flags == [clean : BOOLEAN, pdf : BOOLEAN, check_cite : BOOLEAN,
          exit_on_error : BOOLEAN, preview : BOOLEAN, command : {""}]

Documents == [toc : BOOLEAN, bib : {""} \cup BibNames, cites : CiteSeqs,
              incl : BOOLEAN, chcites : CiteSeqs,
              gloss : {<<>>, <<"main">>, <<"main", "acr">>},
              terms : {<<"t">>, <<"t", "u">>}]

Absent == <<>>
Present(text) == <<text>>

\* what an earlier build left behind: nothing, or the files of a document
Leftovers(prev) ==
    IF prev = Absent THEN {}
    ELSE {AuxFile, LogFile}
         \cup (IF prev[1].incl THEN {File("ch", "aux")} ELSE {})
         \cup (IF prev[1].toc THEN {TocFile} ELSE {})

InitWith(Opts, Scenarios) ==
    /\ opt \in Opts
    /\ \E sc \in Scenarios :
        LET prev == sc.prev
            glo == sc.glo
            b == sc.bib
            gname(fn) == CHOOSE g \in GlossNames : fn = File(project_name, GlossExt[g].o)
            gfiles == {File(project_name, GlossExt[g].o) : g \in {h \in GlossNames : glo[h] # Absent}}
            bfiles == (IF b.bib = Absent THEN {} ELSE {BibOf("refs")})
                      \cup (IF b.old = Absent THEN {} ELSE {BibOldOf("refs")})
            d0 == {TexFile} \cup Leftovers(prev) \cup gfiles \cup bfiles
            text(fn) ==
                IF fn = LogFile THEN {}
                ELSE IF fn \notin d0 THEN <<>>
                ELSE IF fn = BibOf("refs") THEN b.bib[1]
                ELSE IF fn = BibOldOf("refs") THEN b.old[1]
                ELSE IF fn \in gfiles THEN LinesFor("glossaryentry", glo[gname(fn)][1])
                ELSE CompilerText(prev[1], {}, {}, fn)
        IN  /\ doc = sc.doc
            /\ dir = d0
            /\ fs = [fn \in Files |-> text(fn)]
            /\ mtime = [fn \in {BibOf("refs"), BibOldOf("refs")} |->
                          IF fn \notin d0 THEN 0
                          ELSE IF fn = BibOf("refs") THEN b.mb ELSE b.mo]
    /\ fs0 = fs
    /\ dir0 = dir
    /\ pc = "start"
    /\ exc = "none"
    /\ msg = ""
    /\ status = -1
    /\ out = {}
    /\ glossaries = <<>>
    /\ latex_run_counter = 0
    /\ bib_file = ""
    /\ old_dir = {}
    /\ cite_counter = <<>>
    /\ toc_sha = <<>>
    /\ gloss_files = <<>>
    /\ gloss_changed = FALSE
    /\ gi = 0
    /\ trace = <<>>
    /\ made = {}
    /\ uncited = {}
    /\ failed = {}

BibStates ==
    {[bib |-> Absent, old |-> Absent, mb |-> 0, mo |-> 0]}
    \cup {[bib |-> Present(t), old |-> Absent, mb |-> 0, mo |-> 0] : t \in BibTexts}
    \cup {[bib |-> Present(t), old |-> Present(u), mb |-> m, mo |-> n] :
            t \in BibTexts, u \in BibTexts, m \in 0..MaxTime, n \in 0..MaxTime}

-----------------------------------------------------------------------------
(* LatexMaker: the decisions of run() *)

\* _need_bib_run: BIB_PATTERN.search on the main auxiliary file
HasBibData(text) == LinesOf(text, "bibdata") # {}
BibDataName(text) ==
    text[CHOOSE j \in LinesOf(text, "bibdata") : \A m \in LinesOf(text, "bibdata") : j <= m].k

\* _need_bib_run: 'No file <project>.bbl.' or 'LaTeX Warning: Citation .* undefined'
BibHint(log) ==
    \E ln \in log : (ln.t = "nofile" /\ ln.k = "bbl") \/ ln.t = "citeundef"

\* faulty variant: the bibliography source is not looked for
NeedBibRunIgnoresSource(old_cite_counter) ==
    IF ~HasBibData(fs[AuxFile]) THEN FALSE
    ELSE LET b == BibDataName(fs[AuxFile])
         IN  IF BibHint(out) THEN TRUE
             ELSE IF old_cite_counter # GenerateCitationCounter(fs, dir) THEN TRUE
             ELSE IF BibOldOf(b) \in dir
                     /\ ~FilecmpCmp(fs, mtime, BibOf(b), BibOldOf(b)) THEN TRUE
             ELSE FALSE

\* _need_bib_run: the return value (None counts as False)
NeedBibRun(old_cite_counter) ==
    IF ~HasBibData(fs[AuxFile]) THEN FALSE
    ELSE LET b == BibDataName(fs[AuxFile])
         IN  IF BibOf(b) \notin dir THEN FALSE
             ELSE IF BibHint(out) THEN TRUE
             ELSE IF old_cite_counter # GenerateCitationCounter(fs, dir) THEN TRUE
             ELSE IF BibOldOf(b) \in dir
                     /\ ~FilecmpCmp(fs, mtime, BibOf(b), BibOldOf(b)) THEN TRUE
             ELSE FALSE

\* faulty variant: the notice in the log is not looked for
MakeGlossIgnoresLog(g) ==
    \/ File(project_name, g.ext_o) \notin dir
    \/ g.name \notin DOMAIN gloss_files
    \/ gloss_files[g.name] # fs[File(project_name, g.ext_o)]

\* makeindex_runs: make_gloss for the glossary g of the registry
MakeGloss(g) ==
    LET fname_in == File(project_name, g.ext_i)
        fname_out == File(project_name, g.ext_o)
    IN  \/ \E ln \in out : ln.t = "nofile" /\ ln.k = g.ext_i
        \/ fname_out \notin dir
        \/ g.name \notin DOMAIN gloss_files
        \/ gloss_files[g.name] # fs[fname_out]

\* faulty variant: the loop admits one pass too many
LoopGuardOffByOne == latex_run_counter <= MAX_RUNS

\* run(): the condition of the while loop
LoopGuard == latex_run_counter < MAX_RUNS

\* run(): the files the clean-up removes
Ending == IF opt.pdf THEN "pdf" ELSE "dvi"

\* faulty variant: the clean-up forgets the listing taken at the start
CleanIgnoresOldDir == {fn \in dir : fn[2] # Ending}

CleanCandidates == {fn \in dir : ~(fn \in old_dir \/ fn[2] = Ending)}

-----------------------------------------------------------------------------
(* Actions *)

Raise(e, m) == pc' = "except" /\ exc' = e /\ msg' = m

\* faulty variant: the OSError of the launch is passed on as it is
FatalErrorUnwrapped(name) == Raise("OSError", name)

\* _fatal_error(NO_LATEX_ERROR % name): log the message, raise LatexMkError
FatalError(name) == Raise("LatexMkError", name)

\* faulty variant: the copy is not made
ShutilCopyNothing(f, src, dst) == f

\* shutil.copy(src, dst)
ShutilCopy(f, src, dst) == [f EXCEPT ![dst] = f[src]]
Goto(p) == pc' = p /\ UNCHANGED <<exc, msg>>

\* run(), lines 382-386: self.old_dir and _read_latex_files()
Start ==
    /\ pc = "start"
    /\ old_dir' = IF opt.clean THEN dir ELSE {}
    /\ glossaries' = IF AuxFile \in dir THEN ReadGlossaries(glossaries, fs[AuxFile])
                     ELSE glossaries
    /\ IF TocFile \in dir
       THEN \* hashlib.sha265: the name hashlib is not bound
            /\ Raise("NameError", "hashlib")
            /\ UNCHANGED <<cite_counter, toc_sha, gloss_files>>
       ELSE /\ cite_counter' = IF AuxFile \in dir THEN GenerateCitationCounter(fs, dir)
                               ELSE (AuxFile :> EmptyCounter)
            /\ toc_sha' = <<>>
            /\ gloss_files' = SnapshotGloss(glossaries', fs, dir)
            /\ Goto("latex1")
    /\ UNCHANGED <<opt, doc, fs, dir, mtime, fs0, dir0, status, out,
                   latex_run_counter, bib_file, gloss_changed, gi, trace, made,
                   uncited, failed>>

LatexPcs == {"latex1", "latex2", "latex3", "latexloop"}
AfterLatex(p) ==
    CASE p = "latex1" -> "glossaries"
      [] p = "latex2" -> "bib_check"
      [] OTHER -> "loop"

\* latex_run(), called from lines 388, 393, 397 and 402 of run()
LatexRun ==
    /\ pc \in LatexPcs
    /\ \/ \* Popen raises OSError
          /\ FatalError(LatexCmd)
          /\ trace' = Append(trace, "oserror_compiler")
          /\ UNCHANGED <<fs, dir, out, latex_run_counter>>
       \/ \E log \in LogChoices :
          /\ dir' = dir \cup CompilerFiles(doc)
          /\ fs' = [fn \in Files |-> IF fn \in CompilerFiles(doc)
                                     THEN CompilerText(doc, dir, log, fn) ELSE fs[fn]]
          /\ latex_run_counter' = latex_run_counter + 1
          /\ out' = fs'[LogFile]
          /\ trace' = Append(trace, "latex")
          /\ IF CheckErrorsRaises(out')
             THEN Raise("LatexMkError", "errors")
             ELSE Goto(AfterLatex(pc))
    /\ UNCHANGED <<opt, doc, mtime, fs0, dir0, status, glossaries, bib_file,
                   old_dir, cite_counter, toc_sha, gloss_files, gloss_changed, gi,
                   made, uncited, failed>>

\* run() line 389 and the start of makeindex_runs()
ReadGlossariesStep ==
    /\ pc = "glossaries"
    /\ glossaries' = ReadGlossaries(glossaries, fs[AuxFile])
    /\ gloss_changed' = FALSE
    /\ gi' = 1
    /\ Goto("makeindex")
    /\ UNCHANGED <<opt, doc, fs, dir, mtime, fs0, dir0, status, out,
                   latex_run_counter, bib_file, old_dir, cite_counter, toc_sha,
                   gloss_files, trace, made, uncited, failed>>

\* makeindex_runs(): one iteration of the for loop
MakeindexIter ==
    /\ pc = "makeindex"
    /\ gi <= Len(glossaries)
    /\ LET g == glossaries[gi]
           fname_in == File(project_name, g.ext_i)
           fname_out == File(project_name, g.ext_o)
       IN  IF MakeGloss(g)
           THEN \/ \* Popen raises OSError
                   /\ FatalError("makeindex")
                   /\ trace' = Append(trace, "oserror_makeindex")
                   /\ UNCHANGED <<fs, dir, gloss_changed, gi, made>>
                \/ /\ dir' = IF fname_out \in dir THEN dir \cup {fname_in} ELSE dir
                   /\ fs' = IF fname_out \in dir
                            THEN [fs EXCEPT ![fname_in] = fs[fname_out]] ELSE fs
                   /\ trace' = Append(trace, "makeindex")
                   /\ made' = made \cup {g.name}
                   /\ gloss_changed' = TRUE
                   /\ gi' = gi + 1
                   /\ Goto("makeindex")
           ELSE /\ gi' = gi + 1
                /\ Goto("makeindex")
                /\ UNCHANGED <<fs, dir, gloss_changed, trace, made>>
    /\ UNCHANGED <<opt, doc, mtime, fs0, dir0, status, out, glossaries,
                   latex_run_counter, bib_file, old_dir, cite_counter, toc_sha,
                   gloss_files, uncited, failed>>

\* run() line 392: gloss_changed or self._is_toc_changed(toc_sha)
TocCheck ==
    /\ pc = "makeindex"
    /\ gi > Len(glossaries)
    /\ IF gloss_changed THEN Goto("latex2")
       ELSE IF TocFile \in dir
       THEN \* hashlib.sha256: the name hashlib is not bound
            Raise("NameError", "hashlib")
       ELSE Goto("bib_check")
    /\ UNCHANGED <<opt, doc, fs, dir, mtime, fs0, dir0, status, out, glossaries,
                   latex_run_counter, bib_file, old_dir, cite_counter, toc_sha,
                   gloss_files, gloss_changed, gi, trace, made, uncited, failed>>

\* run() line 395: self._need_bib_run(cite_counter)
BibCheck ==
    /\ pc = "bib_check"
    /\ bib_file' = IF HasBibData(fs[AuxFile]) THEN BibDataName(fs[AuxFile]) ELSE bib_file
    /\ IF NeedBibRun(cite_counter) THEN Goto("bibtex") ELSE Goto("loop")
    /\ UNCHANGED <<opt, doc, fs, dir, mtime, fs0, dir0, status, out, glossaries,
                   latex_run_counter, old_dir, cite_counter, toc_sha, gloss_files,
                   gloss_changed, gi, trace, made, uncited, failed>>

\* bibtex_run(), called from line 396 of run()
BibtexRun ==
    /\ pc = "bibtex"
    /\ \/ \* Popen raises OSError
          /\ FatalError("bibtex")
          /\ trace' = Append(trace, "oserror_bibtex")
          /\ UNCHANGED <<fs, dir, mtime>>
       \/ /\ dir' = dir \cup {BblFile, BibOldOf(bib_file)}
          /\ fs' = ShutilCopy(fs, BibOf(bib_file), BibOldOf(bib_file))
          /\ mtime' = [mtime EXCEPT ![BibOldOf(bib_file)] = MaxTime]
          /\ trace' = trace \o <<"bibtex", "copy">>
          /\ Goto("latex3")
    /\ UNCHANGED <<opt, doc, fs0, dir0, status, out, glossaries, latex_run_counter,
                   bib_file, old_dir, cite_counter, toc_sha, gloss_files,
                   gloss_changed, gi, made, uncited, failed>>

\* run() lines 399-401: the head of the rerun loop
RerunCheck ==
    /\ pc = "loop"
    /\ IF LoopGuard /\ NeedLatexRerun(out) THEN Goto("latexloop") ELSE Goto("check_cite")
    /\ UNCHANGED <<opt, doc, fs, dir, mtime, fs0, dir0, status, out, glossaries,
                   latex_run_counter, bib_file, old_dir, cite_counter, toc_sha,
                   gloss_files, gloss_changed, gi, trace, made, uncited, failed>>

\* run() lines 404-418: the uncited-entries check
CheckCite ==
    /\ pc = "check_cite"
    /\ IF ~opt.check_cite THEN Goto("cleanup") /\ UNCHANGED uncited
       ELSE IF BibOf(bib_file) \notin dir
       THEN \* open('%s.bib' % self.bib_file) fails
            Raise("IOError", "bib") /\ UNCHANGED uncited
       ELSE LET aux_content == fs[AuxFile]
                bib_content == fs[BibOf(bib_file)]
                cites == {aux_content[j].k : j \in LinesOf(aux_content, "bibcite")}
                entries == {bib_content[j].k : j \in LinesOf(bib_content, "entry")}
            IN  uncited' = entries \ cites /\ Goto("cleanup")
    /\ UNCHANGED <<opt, doc, fs, dir, mtime, fs0, dir0, status, out, glossaries,
                   latex_run_counter, bib_file, old_dir, cite_counter, toc_sha,
                   gloss_files, gloss_changed, gi, trace, made, failed>>

\* run() lines 420-430: the clean-up; os.remove may fail (swallowed)
Cleanup ==
    /\ pc = "cleanup"
    /\ IF opt.clean
       THEN \E fl \in SubsetsUpTo(CleanCandidates, MaxRemoveFail) :
               /\ failed' = fl
               /\ dir' = dir \ (CleanCandidates \ fl)
               /\ fs' = [fn \in Files |-> IF fn \in dir' \/ fn = LogFile THEN fs[fn] ELSE <<>>]
               /\ trace' = Append(trace, "clean")
       ELSE UNCHANGED <<failed, dir, fs, trace>>
    /\ Goto("preview")
    /\ UNCHANGED <<opt, doc, mtime, fs0, dir0, status, out, glossaries,
                   latex_run_counter, bib_file, old_dir, cite_counter, toc_sha,
                   gloss_files, gloss_changed, gi, made, uncited>>

\* run() lines 432-433: open_preview()
Preview ==
    /\ pc = "preview"
    /\ trace' = IF opt.preview THEN Append(trace, "preview") ELSE trace
    /\ Goto("finish")
    /\ UNCHANGED <<opt, doc, fs, dir, mtime, fs0, dir0, status, out, glossaries,
                   latex_run_counter, bib_file, old_dir, cite_counter, toc_sha,
                   gloss_files, gloss_changed, gi, made, uncited, failed>>

\* run() lines 435-436: the success message
Finish ==
    /\ pc = "finish"
    /\ trace' = Append(trace, "compiled")
    /\ Goto("done")
    /\ UNCHANGED <<opt, doc, fs, dir, mtime, fs0, dir0, status, out, glossaries,
                   latex_run_counter, bib_file, old_dir, cite_counter, toc_sha,
                   gloss_files, gloss_changed, gi, made, uncited, failed>>

\* main(): run() returned
MainReturn ==
    /\ pc = "done"
    /\ pc' = "exited"
    /\ status' = 0
    /\ UNCHANGED <<opt, doc, fs, dir, mtime, fs0, dir0, exc, msg, out, glossaries,
                   latex_run_counter, bib_file, old_dir, cite_counter, toc_sha,
                   gloss_files, gloss_changed, gi, trace, made, uncited, failed>>

\* main() lines 567-570: except LatexMkError: log '! Exiting...', sys.exit(1)
MainCatch ==
    /\ pc = "except"
    /\ exc = "LatexMkError"
    /\ pc' = "exited"
    /\ status' = 1
    /\ UNCHANGED <<opt, doc, fs, dir, mtime, fs0, dir0, exc, msg, out, glossaries,
                   latex_run_counter, bib_file, old_dir, cite_counter, toc_sha,
                   gloss_files, gloss_changed, gi, trace, made, uncited, failed>>

\* main(): any other exception is not caught; the interpreter prints a traceback
MainUncaught ==
    /\ pc = "except"
    /\ exc # "LatexMkError"
    /\ pc' = "traceback"
    /\ status' = 1
    /\ UNCHANGED <<opt, doc, fs, dir, mtime, fs0, dir0, exc, msg, out, glossaries,
                   latex_run_counter, bib_file, old_dir, cite_counter, toc_sha,
                   gloss_files, gloss_changed, gi, trace, made, uncited, failed>>

Next ==
    \/ Start
    \/ LatexRun
    \/ ReadGlossariesStep
    \/ MakeindexIter
    \/ TocCheck
    \/ BibCheck
    \/ BibtexRun
    \/ RerunCheck
    \/ CheckCite
    \/ Cleanup
    \/ Preview
    \/ Finish
    \/ MainReturn
    \/ MainCatch
    \/ MainUncaught

-----------------------------------------------------------------------------
(* Specifications *)

Doc(toc, bib, cites, incl, chcites, gloss, terms) ==
    [toc |-> toc, bib |-> bib, cites |-> cites, incl |-> incl, chcites |-> chcites,
     gloss |-> gloss, terms |-> terms]

CoreDocs ==
    {Doc(FALSE, "", <<>>, FALSE, <<>>, <<>>, <<"t">>),
     Doc(TRUE, "", <<>>, FALSE, <<>>, <<>>, <<"t">>),
     Doc(FALSE, "refs", <<"a">>, FALSE, <<>>, <<>>, <<"t">>),
     Doc(TRUE, "refs", <<"a">>, FALSE, <<>>, <<"main">>, <<"t">>)}

NoGlo == [g \in GlossNames |-> Absent]
NoBib == [bib |-> Absent, old |-> Absent, mb |-> 0, mo |-> 0]

\* the bibliography source is missing, new, or as the last build saved it
CoreBibs ==
    {NoBib,
     [bib |-> Present(<<EntryLine("a")>>), old |-> Absent, mb |-> 0, mo |-> 0],
     [bib |-> Present(<<EntryLine("a")>>), old |-> Present(<<EntryLine("a")>>),
      mb |-> 0, mo |-> 0]}

\* a first build in a fresh directory, or a rebuild of the same document
CoreScenarios ==
    UNION {{[doc |-> d, prev |-> p, glo |-> NoGlo, bib |-> b] :
                p \in {Absent, Present(d)},
                b \in IF d.bib = "" THEN {NoBib} ELSE CoreBibs} : d \in CoreDocs}

Init == InitWith(Flags, CoreScenarios)

Spec == Init /\ [][Next]_vars

\* the flags of a command line without options
DefaultFlags == [clean |-> FALSE, pdf |-> TRUE, check_cite |-> FALSE,
                 exit_on_error |-> TRUE, preview |-> FALSE, command |-> ""]

\* documents with a bibliography that differ in their citations
CiteDocs ==
    {Doc(FALSE, "refs", c, FALSE, <<>>, <<>>, <<"t">>) : c \in CiteSeqs}
    \cup {Doc(FALSE, "refs", <<>>, TRUE, c, <<>>, <<"t">>) : c \in CiteSeqs}

NewBib == [bib |-> Present(<<EntryLine("a")>>), old |-> Absent, mb |-> 0, mo |-> 0]

\* a build after the citations of the document changed, and
\* a rebuild with every state of the bibliography source and its saved copy
CiteScenarios ==
    {[doc |-> d, prev |-> p, glo |-> NoGlo, bib |-> NewBib] :
        d \in CiteDocs, p \in {Absent} \cup {Present(e) : e \in CiteDocs}}
    \cup {[doc |-> Doc(FALSE, "refs", <<"a">>, FALSE, <<>>, <<>>, <<"t">>),
           prev |-> Present(Doc(FALSE, "refs", <<"a">>, FALSE, <<>>, <<>>, <<"t">>)),
           glo |-> NoGlo, bib |-> b] : b \in BibStates}

InitCite == InitWith({DefaultFlags, [DefaultFlags EXCEPT !.check_cite = TRUE]},
                     CiteScenarios \cup CoreScenarios)

SpecCite == InitCite /\ [][Next]_vars

\* documents that differ in their glossaries and glossary entries
GlossDocs ==
    {Doc(FALSE, "", <<>>, FALSE, <<>>, g, t) :
        g \in {<<>>, <<"main">>, <<"main", "acr">>}, t \in {<<"t">>, <<"t", "u">>}}

GlossLeft == [GlossNames -> {Absent, Present(<<"t">>), Present(<<"t", "u">>)}]

\* a build after the glossaries changed, over any glossary files left behind
GlossScenarios ==
    {[doc |-> d, prev |-> p, glo |-> g, bib |-> NoBib] :
        d \in GlossDocs, p \in {Absent} \cup {Present(e) : e \in GlossDocs},
        g \in GlossLeft}

InitGloss == InitWith({DefaultFlags, [DefaultFlags EXCEPT !.check_cite = TRUE]},
                      GlossScenarios \cup CoreScenarios)

SpecGloss == InitGloss /\ [][Next]_vars

\* run() is one sequential thread and every tool it starts is waited for
\* (Popen(...).wait()): a step that can be taken is taken
LoopFlags == {DefaultFlags, [DefaultFlags EXCEPT !.exit_on_error = FALSE]}
InitLoop == InitWith(LoopFlags, CoreScenarios)

SpecLoop == InitLoop /\ [][Next]_vars /\ WF_vars(Next)

-----------------------------------------------------------------------------
(* Claims checked under Spec *)

NumLatex == Cardinality({j \in DOMAIN trace : trace[j] = "latex"})
Events == Range(trace)
Completed == pc = "done" \/ (pc = "exited" /\ status = 0)

\* C1: one run() executes the compiler at most MAX_RUNS = 4 times, counting the
\* first pass, the glossary/TOC pass, the pass after bibtex and the rerun loop,
\* whatever the logs say.
C1_AtMostMaxRuns == NumLatex <= MAX_RUNS /\ latex_run_counter <= MAX_RUNS

\* the loop was stopped by the bound: four passes of all four kinds, and the
\* last log still asks for a rerun
C1_Witness ==
    /\ pc = "check_cite"
    /\ NumLatex = MAX_RUNS
    /\ NeedLatexRerun(out)
    /\ "makeindex" \in Events
    /\ "bibtex" \in Events

\* the digest of the table of contents, the empty sentinel for an absent file
C2_TocDigest(f, dr) == IF TocFile \in dr THEN <<"sha256", f[TocFile]>> ELSE <<>>
C2_TocDiffers == C2_TocDigest(fs, dir) # C2_TocDigest(fs0, dir0)
\* C2 (as claimed): after the glossary step, a rebuilt glossary or a table of
\* contents whose digest differs from the snapshot (an absent file counting as
\* the empty sentinel) leads to the one extra pass, anything else straight to
\* the bibliography decision.
C2_ExtraPassRule ==
    [][pc = "makeindex" /\ gi > Len(glossaries)
        => pc' = IF gloss_changed \/ C2_TocDiffers THEN "latex2" ELSE "bib_check"]_vars

\* C3: errors found in the log abort the run only under exit_on_error: then the
\* pass raises LatexMkError and nothing follows it; without the flag the run goes
\* on to the step after the pass.
C3_ErrorsFatalOnlyOnFlag ==
    [][/\ latex_run_counter' # latex_run_counter /\ HasErrors(out') /\ opt.exit_on_error
            => pc' = "except" /\ exc' = "LatexMkError" /\ msg' = "errors"
       /\ latex_run_counter' # latex_run_counter /\ HasErrors(out') /\ ~opt.exit_on_error
            => pc' = AfterLatex(pc) /\ exc' = "none"
       /\ pc' = "except" /\ msg' = "errors" => opt.exit_on_error /\ HasErrors(out')
       /\ pc \in {"except", "exited"} /\ exc = "LatexMkError"
            => trace' = trace /\ dir' = dir /\ fs' = fs /\ mtime' = mtime
      ]_vars

\* a run without the flag whose last pass logged errors, and which completed
C3_Witness ==
    /\ ~opt.exit_on_error
    /\ HasErrors(out)
    /\ pc = "done"
    /\ trace[Len(trace)] = "compiled"

\* the failed launches, and the executable each one must name
OsErrors == {"oserror_compiler", "oserror_bibtex", "oserror_makeindex"}
C4_Executable(e) ==
    CASE e = "oserror_compiler" -> LatexCmd
      [] e = "oserror_bibtex" -> "bibtex"
      [] e = "oserror_makeindex" -> "makeindex"
\* C4: a launch that fails with OSError ends the run with LatexMkError naming
\* the executable: it is the last thing run() did, the pass counter counts only
\* the passes that ran, and main() exits with status 1.
C4_LaunchFailureFatal ==
    \A j \in DOMAIN trace : trace[j] \in OsErrors =>
        /\ j = Len(trace)
        /\ pc \in {"except", "exited"}
        /\ exc = "LatexMkError"
        /\ msg = C4_Executable(trace[j])
        /\ latex_run_counter = NumLatex
        /\ pc = "exited" => status = 1

\* bibtex could not be launched after two passes, with clean-up and preview asked
C4_Witness ==
    /\ pc = "exited"
    /\ status = 1
    /\ trace = <<"latex", "makeindex", "latex", "oserror_bibtex">>
    /\ opt.clean
    /\ opt.preview

\* C8 (as claimed): the uncited-entries check never aborts: from the check the
\* run always goes on to the clean-up.
C8_CheckCiteNeverFatal == [][pc = "check_cite" => pc' = "cleanup"]_vars

\* C9 (as claimed): after a completed run that ran bibtex, <bibfile>.bib.old
\* exists and equals <bibfile>.bib, whatever the flags.
C9_BibOldAlwaysKept ==
    Completed /\ "bibtex" \in Events
        => /\ BibOldOf(bib_file) \in dir
           /\ fs[BibOldOf(bib_file)] = fs[BibOf(bib_file)]

\* C9 (amended): the same, unless the clean flag is set and <bibfile>.bib.old
\* was not in the listing taken at the start: then the clean-up removes it, and
\* it is there only if its removal failed.
C9_BibOldKeptUnlessCleaned ==
    Completed /\ "bibtex" \in Events
        => LET old == BibOldOf(bib_file)
           IN  /\ old \in dir => fs[old] = fs[BibOf(bib_file)]
               /\ IF opt.clean /\ old \notin old_dir
                  THEN old \in dir <=> old \in failed
                  ELSE old \in dir

\* a completed run with the clean flag that ran bibtex and kept the copy
C9_Witness ==
    /\ Completed
    /\ "bibtex" \in Events
    /\ opt.clean
    /\ BibOldOf(bib_file) \in old_dir
    /\ BibOldOf(bib_file) \in dir

\* C10: with the clean flag the clean-up leaves exactly the files of the start
\* listing, the files with the final extension and the files whose removal
\* failed; nothing else in run() removes a file, and without the flag run()
\* removes none.  The start listing is the directory as run() found it.
C10_CleanupFrame ==
    [][/\ pc = "cleanup" /\ opt.clean
            => /\ old_dir = dir0
               /\ dir' \subseteq dir
               /\ \A fn \in dir :
                    fn \in dir' <=> (fn \in old_dir \/ fn[2] = Ending \/ fn \in failed')
       /\ pc # "cleanup" \/ ~opt.clean => dir \subseteq dir'
      ]_vars

\* after a clean-up that removed the auxiliary file, kept the new output file
\* and failed on one file
C10_Witness ==
    /\ opt.clean
    /\ pc = "preview"
    /\ AuxFile \notin dir
    /\ AuxFile \notin old_dir
    /\ OutputFile \in dir
    /\ OutputFile \notin old_dir
    /\ TexFile \in dir
    /\ failed # {}

\* the events a step adds to the trace, and the last n events of a trace
C11_Added == SubSeq(trace', Len(trace) + 1, Len(trace'))
C11_Last(t, n) == IF Len(t) < n THEN <<>> ELSE SubSeq(t, Len(t) - n + 1, Len(t))

\* C11: bibtex is invoked at most once in a run(), after a compiler pass and
\* after every makeindex invocation, and only when main.aux has a \bibdata
\* directive whose .bib file exists (a missing one means no invocation); the
\* invocation is followed at once by the copy to .bib.old, the next thing run
\* is the compiler, and the rerun loop is entered after exactly that one pass.
C11_BibtexOrdering ==
    [][/\ "bibtex" \in Range(C11_Added)
            => /\ "bibtex" \notin Events
               /\ "latex" \in Events
               /\ AuxFile \in dir /\ HasBibData(fs[AuxFile])
               /\ BibOf(BibDataName(fs[AuxFile])) \in dir
               /\ C11_Added = <<"bibtex", "copy">>
               /\ BibOldOf(BibDataName(fs[AuxFile])) \in dir'
               /\ fs'[BibOldOf(BibDataName(fs[AuxFile]))]
                      = fs[BibOf(BibDataName(fs[AuxFile]))]
       /\ "makeindex" \in Range(C11_Added) => "bibtex" \notin Events
       /\ pc = "bib_check"
          /\ (~HasBibData(fs[AuxFile]) \/ BibOf(BibDataName(fs[AuxFile])) \notin dir)
            => pc' = "loop" /\ trace' = trace
       /\ C11_Last(trace, 1) = <<"copy">> /\ trace' # trace
            => C11_Added \in {<<"latex">>, <<"oserror_compiler">>}
       /\ pc \notin {"loop", "latexloop"} /\ pc' = "loop" /\ "bibtex" \in Events
            => C11_Last(trace', 3) = <<"bibtex", "copy", "latex">>
      ]_vars

\* the rerun loop is reached after makeindex and bibtex both ran: bibtex came
\* after the makeindex invocation, the copy was saved, one pass followed
C11_Witness ==
    /\ pc = "loop"
    /\ trace = <<"latex", "makeindex", "latex", "bibtex", "copy", "latex">>
    /\ BibOldOf(bib_file) \in dir
    /\ fs[BibOldOf(bib_file)] = fs[BibOf(bib_file)]

-----------------------------------------------------------------------------
(* Claims checked under SpecCite *)

\* the auxiliary files the citation counter reads: the main one and those it inputs
C5_Counted(f, dr) ==
    {AuxFile} \cup {fn \in {File(f[AuxFile][j].k, "aux") : j \in LinesOf(f[AuxFile], "input")} :
                       fn \in dr}
\* new is old with one citation marker put in
C5_Inserted(old, new) ==
    /\ Len(new) = Len(old) + 1
    /\ \E j \in 1..Len(new) :
        /\ new[j].t = "citation"
        /\ \A m \in 1..Len(old) : old[m] = new[IF m < j THEN m ELSE m + 1]
C5_SameFiles == AuxFile \in dir0 /\ C5_Counted(fs, dir) = C5_Counted(fs0, dir0)
C5_MarkerAdded ==
    /\ C5_SameFiles
    /\ \E fn \in C5_Counted(fs, dir) :
        /\ C5_Inserted(fs0[fn], fs[fn])
        /\ \A other \in C5_Counted(fs, dir) \ {fn} : fs[other] = fs0[other]
C5_Unchanged ==
    /\ C5_SameFiles
    /\ \A fn \in C5_Counted(fs, dir) : fs[fn] = fs0[fn]
C5_BibReady ==
    /\ pc = "bib_check"
    /\ HasBibData(fs[AuxFile])
    /\ BibOf(BibDataName(fs[AuxFile])) \in dir

\* C5: with a \bibdata directive and its source file there, a citation marker
\* added to the auxiliary files since the snapshot makes the recount differ from
\* the snapshot and bibtex is run; a recount of unchanged files equals the
\* snapshot, and then, without a hint in the log or a saved copy, bibtex is not run.
C5_CitationCountRule ==
    [][C5_BibReady =>
        /\ C5_MarkerAdded
            => /\ cite_counter # GenerateCitationCounter(fs, dir)
               /\ pc' = "bibtex"
        /\ C5_Unchanged
            => /\ cite_counter = GenerateCitationCounter(fs, dir)
               /\ ~BibHint(out) /\ BibOldOf(BibDataName(fs[AuxFile])) \notin dir
                    => pc' = "loop"
      ]_vars

\* bibtex is about to run for no reason but a second marker of a key already cited
C5_Witness ==
    /\ pc = "bibtex"
    /\ C5_MarkerAdded
    /\ ~BibHint(out)
    /\ BibOldOf(bib_file) \notin dir
    /\ \E fn \in C5_Counted(fs, dir) :
         DOMAIN CountCitations(fs[fn]) = DOMAIN CountCitations(fs0[fn])
         /\ fs[fn] # fs0[fn]

C6_SameBytes ==
    /\ C5_BibReady
    /\ BibDataName(fs[AuxFile]) = "refs"
    /\ BibOldOf("refs") \in dir
    /\ fs[BibOldOf("refs")] = fs[BibOf("refs")]
\* C6: with \bibdata{refs}, refs.bib and a refs.bib.old of the same bytes, the
\* file comparison finds them equal; with no hint in the log and an unchanged
\* citation counter _need_bib_run is false, and bibtex runs only when
\* _need_bib_run was true.
C6_SameBytesNoBibRun ==
    [][/\ C6_SameBytes
            => /\ FilecmpCmp(fs, mtime, BibOf("refs"), BibOldOf("refs"))
               /\ ~BibHint(out) /\ cite_counter = GenerateCitationCounter(fs, dir)
                    => pc' = "loop"
       /\ pc' = "bibtex" => pc = "bib_check"
       /\ "bibtex" \in Range(trace') /\ "bibtex" \notin Events => pc = "bibtex"
      ]_vars

\* the run passed the bibliography decision without bibtex, the saved copy
\* having the bytes but not the time stamp of refs.bib
C6_Witness ==
    /\ pc = "loop"
    /\ trace = <<"latex">>
    /\ bib_file = "refs"
    /\ BibOldOf("refs") \in dir
    /\ fs[BibOldOf("refs")] = fs[BibOf("refs")]
    /\ mtime[BibOldOf("refs")] # mtime[BibOf("refs")]

-----------------------------------------------------------------------------
(* Claims checked under SpecGloss *)

C7_OutFile(g) == File(project_name, g.ext_o)
C7_LogMissing(g) == \E ln \in out : ln.t = "nofile" /\ ln.k = g.ext_i
\* the glossary was declared in the auxiliary file run() found
C7_Declared(g) ==
    /\ AuxFile \in dir0
    /\ \E j \in LinesOf(fs0[AuxFile], "newglossary") : fs0[AuxFile][j].k = g.name
C7_Invoked == trace' # trace

\* C7 (as claimed): makeindex is invoked for a glossary exactly when the log
\* misses its input file, its output file does not exist, or the output file
\* differs from what it was before the run (not being there counts as
\* differing); makeindex_runs returns true exactly when it invoked makeindex.
C7_RebuildRule ==
    [][/\ pc = "makeindex" /\ gi <= Len(glossaries)
            => LET g == glossaries[gi]
               IN  C7_Invoked <=>
                      \/ C7_LogMissing(g)
                      \/ C7_OutFile(g) \notin dir
                      \/ C7_OutFile(g) \notin dir0
                      \/ fs[C7_OutFile(g)] # fs0[C7_OutFile(g)]
       /\ pc = "makeindex" /\ gi > Len(glossaries)
            => (gloss_changed <=> "makeindex" \in Events)
      ]_vars

\* C7 (amended): as claimed, and also when no snapshot of the output file was
\* taken because the auxiliary file found at the start did not declare the
\* glossary.
C7_RebuildRuleOrNoSnapshot ==
    [][/\ pc = "makeindex" /\ gi <= Len(glossaries)
            => LET g == glossaries[gi]
               IN  C7_Invoked <=>
                      \/ C7_LogMissing(g)
                      \/ C7_OutFile(g) \notin dir
                      \/ C7_OutFile(g) \notin dir0
                      \/ ~C7_Declared(g)
                      \/ fs[C7_OutFile(g)] # fs0[C7_OutFile(g)]
       /\ pc = "makeindex" /\ gi > Len(glossaries)
            => (gloss_changed <=> "makeindex" \in Events)
      ]_vars

\* makeindex_runs is about to return true: it rebuilt a registered glossary
\* whose output file does not exist and left an unchanged one alone
C7_Witness ==
    /\ pc = "makeindex"
    /\ gi > Len(glossaries)
    /\ gloss_changed
    /\ \E j \in 1..Len(glossaries) :
        glossaries[j].name \in made /\ C7_OutFile(glossaries[j]) \notin dir
    /\ \E j \in 1..Len(glossaries) : glossaries[j].name \notin made

-----------------------------------------------------------------------------
(* Claims checked under SpecLoop *)

C12_InLoop == pc \in {"loop", "latexloop"}
C12_Trigger == \E ln \in out : RerunMatches(ln)

\* what one step at the rerun loop may do
C12_LoopStep ==
    /\ pc = "loop" /\ pc' # "loop" /\ pc' # "latexloop" /\ NumLatex < MAX_RUNS
         => ~C12_Trigger /\ out = fs[LogFile]
    /\ pc = "loop" /\ C12_Trigger /\ NumLatex < MAX_RUNS
         => pc' = "latexloop"
    /\ pc = "latexloop"
         => trace' \in {Append(trace, "latex"), Append(trace, "oserror_compiler")}

\* C12: the rerun loop terminates; it is left with fewer than MAX_RUNS passes
\* executed only when the log of the last pass matches no rerun pattern, and
\* while that log matches one and fewer than MAX_RUNS passes were executed the
\* compiler is started again.
C12_RerunLoopTerminates ==
    [][C12_LoopStep]_vars /\ (C12_InLoop ~> ~C12_InLoop)

\* the loop ran the compiler once and was then left after two passes, the log
\* of the second pass asking for no rerun
C12_Witness ==
    /\ pc = "check_cite"
    /\ trace = <<"latex", "latex">>
    /\ latex_run_counter = 2
    /\ ~C12_Trigger

====
